---- MODULE Spec2Model ----
(***************************************************************************)
(* A model of tsql.py: the WHERE-clause compiler of ToySQLParser and the   *)
(* execution engine ToyDB (create_table, SELECT, INSERT, UPDATE, DELETE).  *)
(*                                                                         *)
(* Python strings are modelled as sequences of one-character strings, so   *)
(* that the clause text is matched character by character as the regular   *)
(* expression does and values are compared by code point as str.__lt__     *)
(* does.  A row (a dict) is a function from column names to values; a      *)
(* table (a list of dicts) is a sequence of rows; self.tables is a         *)
(* function whose domain is the set of created table names.                *)
(***************************************************************************)
EXTENDS Naturals, Sequences, FiniteSets, TLC

VARIABLES tables, stmt, pre, outcome, result

vars == <<tables, stmt, pre, outcome, result>>

----------------------------------------------------------------------------
(* Bounds and input alphabets                                              *)

\* total number of rows the store may hold (guard of Insert)
MaxRows == 3

A == <<"a">>
B == <<"b">>
STAR == <<"*">>

TableNames == {"t", "u"}
ColumnNames == {A, B}
Values == {<<"1", "0">>, <<"9">>}

\* None for the optional string fields (a captured group is never empty)
NoText == <<>>

----------------------------------------------------------------------------
(* Strings                                                                 *)

\* ord() of the characters that occur in the inputs
Ord(ch) ==
    CASE ch = " " -> 32
      [] ch = "!" -> 33
      [] ch = "*" -> 42
      [] ch = "0" -> 48
      [] ch = "1" -> 49
      [] ch = "9" -> 57
      [] ch = "<" -> 60
      [] ch = "=" -> 61
      [] ch = ">" -> 62
      [] ch = "a" -> 97
      [] ch = "b" -> 98
      [] ch = "~" -> 126

\* str.__lt__: lexicographic by code point, a proper prefix is smaller
RECURSIVE StrLess(_, _)
StrLess(x, y) ==
    IF y = <<>> THEN FALSE
    ELSE IF x = <<>> THEN TRUE
    ELSE IF Head(x) = Head(y) THEN StrLess(Tail(x), Tail(y))
    ELSE Ord(Head(x)) < Ord(Head(y))

StrLessEq(x, y) == x = y \/ StrLess(x, y)

\* \w and \s of the re module, on the alphabet of Ord
IsWord(ch) == ch \in {"a", "b", "0", "1", "9"}
IsSpace(ch) == ch = " "

\* s[n:]
Drop(s, n) == SubSeq(s, n + 1, Len(s))

\* length of the longest prefix of s matched by \w+ (0: no match)
RECURSIVE WordPrefixLen(_)
WordPrefixLen(s) ==
    IF s = <<>> \/ ~IsWord(Head(s)) THEN 0 ELSE 1 + WordPrefixLen(Tail(s))

\* length of the prefix of s matched by a greedy \s*
RECURSIVE SpacePrefixLen(_)
SpacePrefixLen(s) ==
    IF s = <<>> \/ ~IsSpace(Head(s)) THEN 0 ELSE 1 + SpacePrefixLen(Tail(s))

\* number of trailing whitespace characters of s
RECURSIVE SpaceSuffixLen(_)
SpaceSuffixLen(s) ==
    IF s = <<>> \/ ~IsSpace(s[Len(s)]) THEN 0
    ELSE 1 + SpaceSuffixLen(SubSeq(s, 1, Len(s) - 1))

\* str.strip()
Strip(s) ==
    LET l == SpacePrefixLen(s)
    IN  IF l = Len(s) THEN <<>>
        ELSE SubSeq(s, l + 1, Len(s) - SpaceSuffixLen(s))

StartsWith(s, p) == Len(s) >= Len(p) /\ SubSeq(s, 1, Len(p)) = p

----------------------------------------------------------------------------
(* ToySQLParser._parse_where                                                *)

\* the alternatives of the operator group, in the order the regular
\* expression lists them: the first alternative that lets the rest of the
\* pattern match is the one taken
Operators ==
    << <<"=">>, <<"!", "=">>, <<"<">>, <<"<", "=">>, <<">">>, <<">", "=">> >>

\* where_lambda = None
NoLambda == [kind |-> "None", left |-> <<>>, operator |-> <<>>, right |-> <<>>]
\* _parse_where raised ValueError
BadLambda == [kind |-> "Error", left |-> <<>>, operator |-> <<>>, right |-> <<>>]

\* condition_regex.match(condition) and the dispatch on the operator group.
\* \w+ and \s* are greedy and giving back characters never helps them (an
\* operator starts with neither a word character nor whitespace); an
\* alternative is taken when the text continues with it and at least one
\* more character is left for (?P<right>.+).
ParseWhere(condition) ==
    LET n     == WordPrefixLen(condition)
        rest  == Drop(condition, n)
        tail  == Drop(rest, SpacePrefixLen(rest))
        Fits(i) == StartsWith(tail, Operators[i]) /\ Len(tail) > Len(Operators[i])
        alts  == {i \in DOMAIN Operators : Fits(i)}
        first == CHOOSE i \in alts : \A j \in alts : i <= j
    IN  IF n = 0 \/ alts = {} THEN BadLambda
        ELSE [kind     |-> "lambda",
              left     |-> SubSeq(condition, 1, n),
              operator |-> Operators[first],
              right    |-> Strip(Drop(tail, Len(Operators[first])))]

\* where_lambda=self._parse_where(where) if where else None
CompileWhere(where) == IF where = NoText THEN NoLambda ELSE ParseWhere(where)

\* the lambda raises KeyError on a row without the column
Raises(lam, row) == lam.left \notin DOMAIN row

\* the value of the lambda on a row that has the column
Matches(lam, row) ==
    LET x == row[lam.left]
        y == lam.right
    IN  CASE lam.operator = <<"=">>      -> x = y
          [] lam.operator = <<"!", "=">> -> x # y
          [] lam.operator = <<"<">>      -> StrLess(x, y)
          [] lam.operator = <<"<", "=">> -> StrLessEq(x, y)
          [] lam.operator = <<">">>      -> StrLess(y, x)
          [] lam.operator = <<">", "=">> -> StrLessEq(y, x)

----------------------------------------------------------------------------
(* ToyDB: the execution engine                                              *)

Range(f) == {f[i] : i \in DOMAIN f}

\* what executing a statement yields: the store afterwards, "ok" or the
\* exception raised, and the value returned
Done(T, o, r) == [tables |-> T, outcome |-> o, result |-> r]

\* self.tables.get(name) is None
Missing(T, name) == name \notin DOMAIN T

\* the lookup as `is None` would test it: an empty table counts as present
MissingOnly(T, name) == name \notin DOMAIN T

\* not self.tables.get(name): None or the empty list
MissingOrEmpty(T, name) == name \notin DOMAIN T \/ T[name] = <<>>

\* list.sort(key=lambda row: row[col]) is a stable sort that compares the
\* keys with <: each row goes behind the rows whose key is not greater
RECURSIVE InsertSorted(_, _, _)
InsertSorted(sorted, row, col) ==
    IF sorted = <<>> THEN <<row>>
    ELSE IF StrLess(row[col], Head(sorted)[col]) THEN <<row>> \o sorted
    ELSE <<Head(sorted)>> \o InsertSorted(Tail(sorted), row, col)

RECURSIVE SortBy(_, _)
SortBy(rows, col) ==
    IF rows = <<>> THEN <<>>
    ELSE InsertSorted(SortBy(SubSeq(rows, 1, Len(rows) - 1), col),
                      rows[Len(rows)], col)

\* {col: row[col] for col in query.columns}
Project(row, columns) == [c \in Range(columns) |-> row[c]]

\* _execute_select.  Without a WHERE clause `result` is the stored list
\* itself, so result.sort() sorts the stored table; with one, filter() has
\* built a new list.  sort() leaves the list as it was when a key raises.
ExecSelect(T, q) ==
    IF MissingOrEmpty(T, q.table) THEN Done(T, "TableNotFound", <<>>)
    ELSE
    LET table    == T[q.table]
        lam      == q.where_lambda
        hasWhere == lam.kind = "lambda"
        filtered == IF hasWhere THEN SelectSeq(table, LAMBDA r : Matches(lam, r))
                    ELSE table
        hasOrder == q.orderby # NoText
        sorted   == IF hasOrder THEN SortBy(filtered, q.orderby) ELSE filtered
        T1       == IF hasOrder /\ ~hasWhere THEN [T EXCEPT ![q.table] = sorted]
                    ELSE T
    IN  IF hasWhere /\ \E i \in DOMAIN table : Raises(lam, table[i])
        THEN Done(T, "KeyError", <<>>)
        ELSE IF hasOrder /\ \E i \in DOMAIN filtered : q.orderby \notin DOMAIN filtered[i]
        THEN Done(T, "KeyError", <<>>)
        ELSE IF q.columns = <<STAR>>
        THEN Done(T1, "ok", sorted)
        ELSE IF \E i \in DOMAIN sorted : ~(Range(q.columns) \subseteq DOMAIN sorted[i])
        THEN Done(T1, "KeyError", <<>>)
        ELSE Done(T1, "ok", [i \in DOMAIN sorted |-> Project(sorted[i], q.columns)])

\* a pairing in which the first pair of a repeated column is the one kept
RowOfFirstWins(columns, values) ==
    [c \in Range(columns) |->
        values[CHOOSE i \in DOMAIN columns :
                 columns[i] = c /\ \A j \in DOMAIN columns : columns[j] = c => i <= j]]

\* {col: val for col, val in zip(columns, values, strict=True)}: a later
\* pair with the same column overwrites an earlier one
RowOf(columns, values) ==
    [c \in Range(columns) |->
        values[CHOOSE i \in DOMAIN columns :
                 columns[i] = c /\ \A j \in DOMAIN columns : columns[j] = c => j <= i]]

\* an insert that pairs with a plain zip(): the longer list is cut
ExecInsertTruncating(T, q) ==
    IF Missing(T, q.table) THEN Done(T, "TableNotFound", <<>>)
    ELSE LET n == IF Len(q.columns) < Len(q.values) THEN Len(q.columns)
                  ELSE Len(q.values)
         IN  Done([T EXCEPT ![q.table] =
                      Append(@, RowOf(SubSeq(q.columns, 1, n), SubSeq(q.values, 1, n)))],
                  "ok", <<>>)

\* _execute_insert
ExecInsert(T, q) ==
    IF Missing(T, q.table) THEN Done(T, "TableNotFound", <<>>)
    ELSE IF Len(q.columns) # Len(q.values) THEN Done(T, "Mismatch", <<>>)
    ELSE Done([T EXCEPT ![q.table] = Append(@, RowOf(q.columns, q.values))],
              "ok", <<>>)

\* for col, val in query.assignments.items(): row[col] = val
Assign(row, assignments) ==
    [c \in DOMAIN row \cup DOMAIN assignments |->
        IF c \in DOMAIN assignments THEN assignments[c] ELSE row[c]]

\* the loop of _execute_update from row i on: rows are mutated in place one
\* after the other, and a KeyError of the predicate ends the loop there
RECURSIVE UpdateRows(_, _, _)
UpdateRows(rows, q, i) ==
    LET lam == q.where_lambda
    IN  IF i > Len(rows) THEN [rows |-> rows, outcome |-> "ok"]
        ELSE IF lam.kind = "lambda" /\ Raises(lam, rows[i])
        THEN [rows |-> rows, outcome |-> "KeyError"]
        ELSE IF lam.kind = "lambda" /\ ~Matches(lam, rows[i])
        THEN UpdateRows(rows, q, i + 1)
        ELSE UpdateRows([rows EXCEPT ![i] = Assign(@, q.assignments)], q, i + 1)

\* _execute_update
ExecUpdate(T, q) ==
    IF MissingOrEmpty(T, q.table) THEN Done(T, "TableNotFound", <<>>)
    ELSE LET u == UpdateRows(T[q.table], q, 1)
         IN  Done([T EXCEPT ![q.table] = u.rows], u.outcome, <<>>)

\* the condition of the comprehension of _execute_delete:
\* not (query.where_lambda and query.where_lambda(row)); without a
\* predicate `None and ...` is None and `not None` is True
Keeps(lam, row) == ~(lam.kind = "lambda" /\ Matches(lam, row))

\* _execute_delete: the entry is replaced only once the whole comprehension
\* has been evaluated
ExecDelete(T, q) ==
    IF MissingOrEmpty(T, q.table) THEN Done(T, "TableNotFound", <<>>)
    ELSE
    LET table == T[q.table]
        lam   == q.where_lambda
    IN  IF lam.kind = "lambda" /\ \E i \in DOMAIN table : Raises(lam, table[i])
        THEN Done(T, "KeyError", <<>>)
        ELSE Done([T EXCEPT ![q.table] = SelectSeq(table, LAMBDA r : Keeps(lam, r))],
                  "ok", <<>>)

\* create_table
ExecCreate(T, name) ==
    IF name \in DOMAIN T THEN Done(T, "TableExists", <<>>)
    ELSE Done([n \in DOMAIN T \cup {name} |-> IF n = name THEN <<>> ELSE T[n]],
              "ok", <<>>)

\* ToyDB.execute after the parser has recognised the statement: a WHERE
\* clause that _parse_where rejects makes parse() raise before anything runs
Execute(T, q) ==
    IF q.where_lambda.kind = "Error" THEN Done(T, "PredicateError", <<>>)
    ELSE CASE q.operation = "SELECT" -> ExecSelect(T, q)
           [] q.operation = "INSERT" -> ExecInsert(T, q)
           [] q.operation = "UPDATE" -> ExecUpdate(T, q)
           [] q.operation = "DELETE" -> ExecDelete(T, q)

----------------------------------------------------------------------------
(* Statements issued by the caller                                         *)

V10 == <<"1", "0">>
V9 == <<"9">>

\* the text of a WHERE clause, written with or without blanks
ClauseText(column, operator, literal, spaced) ==
    IF spaced THEN column \o <<" ">> \o operator \o <<" ">> \o literal
    ELSE column \o operator \o literal

\* the conditions the caller writes: <<column, operator, literal, spaced>>
Conds ==
    { <<A, <<"=">>, V10, FALSE>>,
      <<B, <<"!", "=">>, V9, TRUE>>,
      <<A, <<"<">>, V9, TRUE>>,
      <<A, <<">">>, V10, FALSE>>,
      <<A, <<"<", "=">>, V10, FALSE>>,
      <<B, <<"<", "=">>, V10, TRUE>>,
      <<A, <<">", "=">>, V9, TRUE>>,
      <<B, <<">", "=">>, V10, FALSE>> }

TextOf(cond) == ClauseText(cond[1], cond[2], cond[3], cond[4])

\* a clause no operator of which is supported
Malformed == <<"a", " ", "~", " ", "9">>

WhereTexts == {NoText, Malformed} \cup {TextOf(cond) : cond \in Conds}

NoAssign == [c \in {} |-> <<>>]

\* the dataclasses SelectSQL, InsertSQL, UpdateSQL and DeleteSQL as one
\* record type; a field a variant lacks holds its empty value
Statement(operation, table, columns, values, assignments, where, orderby) ==
    [operation    |-> operation,
     table        |-> table,
     columns      |-> columns,
     values       |-> values,
     assignments  |-> assignments,
     where        |-> where,
     where_lambda |-> CompileWhere(where),
     orderby      |-> orderby]

NoStatement == Statement("NONE", "", <<>>, <<>>, NoAssign, NoText, NoText)

SelectColumns == {<<STAR>>, <<A>>, <<B>>}
InsertColumns == {<<A>>, <<A, B>>, <<A, A>>}
InsertValues == {<<v>> : v \in Values} \cup {<<v, w>> : v \in Values, w \in Values}
Assignments ==
    UNION {[{c} -> Values] : c \in ColumnNames} \cup {[c \in ColumnNames |-> V9]}

RECURSIVE RowCount(_, _)
RowCount(T, names) ==
    IF names = {} THEN 0
    ELSE LET n == CHOOSE n \in names : TRUE
         IN  Len(T[n]) + RowCount(T, names \ {n})

----------------------------------------------------------------------------
(* The state machine: the caller issues one call at a time and takes its   *)
(* outcome before the next one.  stmt is the call in hand, pre the store   *)
(* when it was issued, outcome and result what it raised or returned.      *)

Idle == stmt.operation = "NONE"

Init ==
    /\ tables = [n \in {} |-> <<>>]
    /\ stmt = NoStatement
    /\ pre = [n \in {} |-> <<>>]
    /\ outcome = "none"
    /\ result = <<>>

\* db.execute(q) or db.create_table(...): the whole call
Call(q, d) ==
    /\ Idle
    /\ stmt' = q
    /\ pre' = tables
    /\ tables' = d.tables
    /\ outcome' = d.outcome
    /\ result' = d.result

CreateTable ==
    \E name \in TableNames :
        LET q == Statement("CREATE", name, <<A, B>>, <<>>, NoAssign, NoText, NoText)
        IN  Call(q, ExecCreate(tables, name))

Select ==
    \E table \in TableNames, columns \in SelectColumns,
       where \in WhereTexts, orderby \in {NoText} \cup ColumnNames :
        LET q == Statement("SELECT", table, columns, <<>>, NoAssign, where, orderby)
        IN  Call(q, Execute(tables, q))

Insert ==
    /\ RowCount(tables, DOMAIN tables) < MaxRows
    /\ \E table \in TableNames, columns \in InsertColumns, values \in InsertValues :
        LET q == Statement("INSERT", table, columns, values, NoAssign, NoText, NoText)
        IN  Call(q, Execute(tables, q))

Update ==
    \E table \in TableNames, assignments \in Assignments, where \in WhereTexts :
        LET q == Statement("UPDATE", table, <<>>, <<>>, assignments, where, NoText)
        IN  Call(q, Execute(tables, q))

Delete ==
    \E table \in TableNames, where \in WhereTexts :
        LET q == Statement("DELETE", table, <<>>, <<>>, NoAssign, where, NoText)
        IN  Call(q, Execute(tables, q))

\* the caller has the outcome and is ready for the next call
Return ==
    /\ ~Idle
    /\ stmt' = NoStatement
    /\ pre' = tables
    /\ outcome' = "none"
    /\ result' = <<>>
    /\ UNCHANGED tables

Next == CreateTable \/ Select \/ Insert \/ Update \/ Delete \/ Return

Spec == Init /\ [][Next]_vars

----------------------------------------------------------------------------
(* Vocabulary of the properties                                            *)

\* the call in hand is an `operation` statement that the parser accepted
Ran(operation) == stmt.operation = operation /\ outcome # "PredicateError"

\* the call in hand is an `operation` statement that raised nothing
Succeeded(operation) == stmt.operation = operation /\ outcome = "ok"

\* every table but the one the statement names is as it was
OthersUnchanged ==
    /\ DOMAIN tables = DOMAIN pre
    /\ \A n \in DOMAIN pre : n # stmt.table => tables[n] = pre[n]

\* what a condition means as it is written: the comparison its operator
\* names, by string ordering, between the row's value and the literal
Sat(cond, row) ==
    /\ cond[1] \in DOMAIN row
    /\ LET x == row[cond[1]]
           y == cond[3]
       IN  CASE cond[2] = <<"=">>      -> x = y
             [] cond[2] = <<"!", "=">> -> x # y
             [] cond[2] = <<"<">>      -> StrLess(x, y)
             [] cond[2] = <<"<", "=">> -> x = y \/ StrLess(x, y)
             [] cond[2] = <<">">>      -> StrLess(y, x)
             [] cond[2] = <<">", "=">> -> x = y \/ StrLess(y, x)

\* the row after SET: the assigned columns hold their values, the others
\* are as before
IsAssigned(after, before, assignments) ==
    /\ DOMAIN after = DOMAIN before \cup DOMAIN assignments
    /\ \A c \in DOMAIN assignments : after[c] = assignments[c]
    /\ \A c \in DOMAIN before \ DOMAIN assignments : after[c] = before[c]

\* the conditions written with an operator that no other operator of the
\* grammar is a prefix of
PrefixFreeConds == {cond \in Conds : cond[2] \notin {<<"<", "=">>, <<">", "=">>}}

\* the bijections of 1..n
Perms(n) == {f \in [1..n -> 1..n] : \A i, j \in 1..n : f[i] = f[j] => i = j}

----------------------------------------------------------------------------
(* C1: a Select statement, whatever its clauses, leaves every stored table *)
(* as it was, contents and order.                                          *)
SelectLeavesStore == stmt.operation = "SELECT" => tables = pre

(* C2: DELETE FROM T without WHERE on an existing non-empty table leaves   *)
(* T empty.                                                                *)
DeleteAllEmpties ==
    (/\ stmt.operation = "DELETE"
     /\ stmt.where = NoText
     /\ ~MissingOrEmpty(pre, stmt.table))
    => tables[stmt.table] = <<>>

\* deletion with a condition of `conds`: what is left is the rows that did
\* not satisfy it, in their order
DeleteWhereExactOn(conds) ==
    \A cond \in conds :
        (Succeeded("DELETE") /\ stmt.where = TextOf(cond))
        => /\ tables[stmt.table] =
                SelectSeq(pre[stmt.table], LAMBDA r : ~Sat(cond, r))
           /\ OthersUnchanged

(* C3: after a successful DELETE FROM T WHERE cond, T is the sub-sequence  *)
(* of its previous rows that did not satisfy cond, and the other tables    *)
(* are unchanged.                                                          *)
DeleteWhereExact == DeleteWhereExactOn(Conds)

\* update without a condition or with one of `conds`: the rows that
\* satisfied it are assigned, the others and the row order are as before
UpdateScopeOn(conds) ==
    Succeeded("UPDATE") =>
        LET before == pre[stmt.table]
            after  == tables[stmt.table]
        IN  /\ Len(after) = Len(before)
            /\ stmt.where = NoText =>
                 \A i \in DOMAIN before :
                    IsAssigned(after[i], before[i], stmt.assignments)
            /\ \A cond \in conds : stmt.where = TextOf(cond) =>
                 \A i \in DOMAIN before :
                    IF Sat(cond, before[i])
                    THEN IsAssigned(after[i], before[i], stmt.assignments)
                    ELSE after[i] = before[i]
            /\ OthersUnchanged

(* C4: after a successful UPDATE T SET ... WHERE cond, T has as many rows  *)
(* as before; a row that satisfied cond holds the assigned values and its  *)
(* other columns as before; a row that did not is unchanged; without WHERE *)
(* every row is assigned.                                                  *)
UpdateScope == UpdateScopeOn(Conds)

\* ordered selection without a condition or with one of `conds`: some
\* rearrangement f of the passing rows gives the result, is sorted by col and
\* keeps rows of equal col in their stored order
OrderByStableOn(conds) ==
    \A where \in {<<>>} \cup conds :
        (/\ Succeeded("SELECT")
         /\ stmt.orderby # NoText
         /\ stmt.where = (IF where = <<>> THEN NoText ELSE TextOf(where)))
        =>
        LET col     == stmt.orderby
            passing == SelectSeq(pre[stmt.table],
                                 LAMBDA r : where = <<>> \/ Sat(where, r))
            View(r) == IF stmt.columns = <<STAR>> THEN r
                       ELSE Project(r, stmt.columns)
            Key(r)  == IF col \in DOMAIN r THEN r[col] ELSE <<>>
        IN  /\ Len(result) = Len(passing)
            /\ \E f \in Perms(Len(passing)) :
                 /\ \A i \in DOMAIN result : result[i] = View(passing[f[i]])
                 /\ \A i, j \in DOMAIN result :
                      i < j => /\ StrLessEq(Key(passing[f[i]]), Key(passing[f[j]]))
                               /\ Key(passing[f[i]]) = Key(passing[f[j]])
                                    => f[i] < f[j]

(* C5: the result of a successful SELECT ... ORDER BY col lists the rows   *)
(* that pass the WHERE condition (all rows without one), each once, in     *)
(* non-decreasing string order of col, rows of equal col in their stored   *)
(* order.                                                                  *)
OrderByStable == OrderByStableOn(Conds)

\* an Insert with as many values as columns into an existing table: it
\* succeeds, its row r goes behind the rows the table had, nothing else
\* changes, and SELECT * on the table right after returns r
InsertAppendsRow ==
    LET before == pre[stmt.table]
        after  == tables[stmt.table]
        r      == after[Len(after)]
        again  == Execute(tables, Statement("SELECT", stmt.table, <<STAR>>,
                                            <<>>, NoAssign, NoText, NoText))
    IN  /\ outcome = "ok"
        /\ Len(after) = Len(before) + 1
        /\ SubSeq(after, 1, Len(before)) = before
        /\ DOMAIN r = Range(stmt.columns)
        /\ OthersUnchanged
        /\ again.outcome = "ok"
        /\ \E i \in DOMAIN again.result : again.result[i] = r
        /\ again.tables = tables

\* the call in hand is such an Insert
WellFormedInsert ==
    /\ stmt.operation = "INSERT"
    /\ ~Missing(pre, stmt.table)
    /\ Len(stmt.columns) = Len(stmt.values)

\* the row the Insert in hand appended
Appended == tables[stmt.table][Len(tables[stmt.table])]

(* C6, as claimed: an Insert with as many values as columns into an        *)
(* existing table, empty or not, succeeds and appends one row that maps    *)
(* columns[i] to values[i] for every i; the earlier rows and the other     *)
(* tables are unchanged, and a SELECT * on the table right after succeeds  *)
(* and returns that row.                                                   *)
InsertAppendsEveryPair ==
    WellFormedInsert =>
        /\ InsertAppendsRow
        /\ \A i \in DOMAIN stmt.columns :
             Appended[stmt.columns[i]] = stmt.values[i]

(* C6, amended: as above, but the appended row maps columns[i] to          *)
(* values[i] for every i whose column is not named again further right in  *)
(* the list: of the pairs of a repeated column the last one is kept.       *)
InsertAppends ==
    WellFormedInsert =>
        /\ InsertAppendsRow
        /\ \A i \in DOMAIN stmt.columns :
             (\A j \in DOMAIN stmt.columns : j > i => stmt.columns[j] # stmt.columns[i])
               => Appended[stmt.columns[i]] = stmt.values[i]

\* an Insert that names a column twice with two different values has added
\* a row behind the rows of a table
InsertAppendsWitness ==
    /\ Succeeded("INSERT")
    /\ stmt.columns = <<A, A>>
    /\ stmt.values[1] # stmt.values[2]
    /\ pre[stmt.table] # <<>>
    /\ Len(tables[stmt.table]) = Len(pre[stmt.table]) + 1
    /\ Appended[A] = stmt.values[2]

(* C8: an Insert whose columns and values differ in number, into an        *)
(* existing table, raises the mismatch error; an Insert into a table that  *)
(* is not in the store raises table-not-found; either way the store is as  *)
(* before.                                                                 *)
InsertErrors ==
    stmt.operation = "INSERT" =>
        /\ (~Missing(pre, stmt.table) /\ Len(stmt.columns) # Len(stmt.values))
             => outcome = "Mismatch" /\ tables = pre
        /\ Missing(pre, stmt.table)
             => outcome = "TableNotFound" /\ tables = pre

\* two columns were given one value for a table that holds rows
InsertErrorsWitness ==
    /\ stmt.operation = "INSERT"
    /\ outcome = "Mismatch"
    /\ Len(stmt.columns) = 2 /\ Len(stmt.values) = 1
    /\ pre[stmt.table] # <<>>
    /\ tables = pre

(* C9: on a table that exists and has no rows, Select, Update and Delete   *)
(* raise table-not-found and leave the store as it was, while a well-      *)
(* formed Insert succeeds; on a table with at least one row, Select,       *)
(* Update and Delete do not raise table-not-found.                         *)
EmptyIsMissing ==
    LET scans == Ran("SELECT") \/ Ran("UPDATE") \/ Ran("DELETE")
    IN  ~Missing(pre, stmt.table) =>
            /\ (scans /\ pre[stmt.table] = <<>>)
                 => outcome = "TableNotFound" /\ tables = pre
            /\ (/\ stmt.operation = "INSERT"
                /\ pre[stmt.table] = <<>>
                /\ Len(stmt.columns) = Len(stmt.values))
                 => outcome = "ok" /\ Len(tables[stmt.table]) = 1
            /\ (scans /\ pre[stmt.table] # <<>>) => outcome # "TableNotFound"

\* a Delete found its table created and empty, while the other table holds
\* rows
EmptyIsMissingWitness ==
    /\ stmt.operation = "DELETE"
    /\ stmt.table \in DOMAIN pre
    /\ pre[stmt.table] = <<>>
    /\ outcome = "TableNotFound"
    /\ \E n \in DOMAIN pre : pre[n] # <<>>

\* update and deletion with a condition of `conds` on a table of which row k
\* is the first to lack the condition's column
MidScanFailureOn(conds) ==
    \A cond \in conds :
        (/\ stmt.where = TextOf(cond)
         /\ ~MissingOrEmpty(pre, stmt.table)
         /\ \E i \in DOMAIN pre[stmt.table] : cond[1] \notin DOMAIN pre[stmt.table][i])
        =>
        LET before == pre[stmt.table]
            after  == tables[stmt.table]
            k      == CHOOSE i \in DOMAIN before :
                        /\ cond[1] \notin DOMAIN before[i]
                        /\ \A j \in 1..(i - 1) : cond[1] \in DOMAIN before[j]
        IN  /\ stmt.operation = "UPDATE" =>
                 /\ outcome = "KeyError"
                 /\ Len(after) = Len(before)
                 /\ \A i \in 1..(k - 1) :
                      Sat(cond, before[i])
                        => IsAssigned(after[i], before[i], stmt.assignments)
                 /\ \A i \in k..Len(before) : after[i] = before[i]
                 /\ OthersUnchanged
            /\ stmt.operation = "DELETE" =>
                 outcome = "KeyError" /\ tables = pre

(* C10: when a row of the table lacks the column of the WHERE condition,   *)
(* an Update raises the lookup error; the rows before the first such row   *)
(* that satisfied the condition hold the assigned values, that row and the *)
(* rows behind it are unchanged.  A Delete raises it too and leaves the    *)
(* store as it was.                                                        *)
MidScanFailure == MidScanFailureOn(Conds)

----------------------------------------------------------------------------
(* The engine on the conditions the compiler gets right.  C3, C4, C5 and   *)
(* C10 hold of every statement whose condition is written with =, !=, <    *)
(* or >, or has none: what breaks them is the compiler's reading of <=     *)
(* and >= alone.                                                            *)

DeleteWhereExactPrefixFree == DeleteWhereExactOn(PrefixFreeConds)
UpdateScopePrefixFree == UpdateScopeOn(PrefixFreeConds)
OrderByStablePrefixFree == OrderByStableOn(PrefixFreeConds)
MidScanFailurePrefixFree == MidScanFailureOn(PrefixFreeConds)

(* C7: a clause written with <=, >= or != compiles to a predicate with     *)
(* that operator, the clause's column and the clause's literal.            *)
TwoCharOperators ==
    \A cond \in Conds :
        (stmt.where = TextOf(cond) /\ Len(cond[2]) = 2)
        => /\ stmt.where_lambda.kind = "lambda"
           /\ stmt.where_lambda.left = cond[1]
           /\ stmt.where_lambda.operator = cond[2]
           /\ stmt.where_lambda.right = cond[3]

====
